---- MODULE Spec2Model ----
(***************************************************************************)
(* Model of the Google-Sheet JSON proxy (src/index.js: flat values         *)
(* variant; src/unnamed/part_000: grid-with-formatting variant).           *)
(*                                                                         *)
(* JavaScript values are tagged records (field t), so that undefined,      *)
(* null, NaN, numbers, strings, arrays and objects can be told apart.      *)
(* Strings are sequences of one-character strings, so that trim() and      *)
(* Number() are computed and not assumed.  Array indices are 1-based.      *)
(***************************************************************************)
EXTENDS Integers, Sequences, FiniteSets, TLC

VARIABLES
    variant,            \* "grid" (part_000) or "flat" (index.js)
    \* ---- one run of parseSheetData, one loop iteration per step
    inputId,            \* which input parseSheetData is called on (see input)
    ppc,                \* position: "start", "loop", "done", "threw"
    theRows,            \* the local `rows`
    theHeaders,         \* the local `headerMap` (grid) or `headers` (flat)
    rowIdx,             \* the loop variable i (1-based: the first data row is 2)
    data,               \* the local object `data`
    currentServiceKey,  \* the local `currentServiceKey`
    result,             \* the returned value (Undefined until returned)
    \* ---- the server
    cache,              \* module variable `cache`
    cacheTimestamp,     \* module variable `cacheTimestamp`
    clock,              \* Date.now()
    ticks,              \* number of clock advances so far
    req,                \* the requests to GET /api/sheet-data, in order of arrival
    \* ---- one call of rgbToColorName
    theColor,           \* the argument `rgbColor`
    colorName,          \* the returned name ("" until returned)
    \* ---- the rate limiter mounted on /api/
    hits,               \* per client: the requests counted in its window
    resetTime,          \* per client: the end of its window (0: no window)
    windowFrom,         \* per client: the time of the first request counted
    reached,            \* per client: the counted requests that reached the handler
    last,               \* the last request and its answer
    \* ---- the start of the process
    env,                \* process.env after dotenv: SHEET_ID, API_KEY, PORT
    bpc,                \* how far the module's top-level code has run
    mounted,            \* the middleware and routes registered on app
    listening,          \* the port the server listens on (undefined: none)
    served              \* a request has been served

pvars == <<inputId, ppc, theRows, theHeaders, rowIdx, data, currentServiceKey, result>>
svars == <<cache, cacheTimestamp, clock, ticks, req>>
cvars == <<theColor, colorName>>
lvars == <<hits, resetTime, windowFrom, reached, last>>
bvars == <<env, bpc, mounted, listening, served>>
xvars == <<cvars, lvars, bvars>>
vars == <<variant, pvars, svars, xvars>>

----------------------------------------------------------------------------
(* JavaScript values *)

Undefined == [t |-> "undef"]
JsNull == [t |-> "null"]
NaN == [t |-> "nan"]
Num(n) == [t |-> "num", v |-> n]
Str(s) == [t |-> "str", v |-> s]
Arr(s) == [t |-> "arr", v |-> s]
Obj(r) == [t |-> "obj", v |-> r]

\* ToBoolean
Truthy(x) ==
    CASE x.t = "undef" -> FALSE
      [] x.t = "null" -> FALSE
      [] x.t = "nan" -> FALSE
      [] x.t = "num" -> x.v # 0
      [] x.t = "str" -> x.v # <<>>
      [] OTHER -> TRUE

\* a || b
JsOr(a, b) == IF Truthy(a) THEN a ELSE b

\* arr[i] of a JavaScript array value (1-based here), undefined out of range
At(arr, i) == IF i \in 1..Len(arr.v) THEN arr.v[i] ELSE Undefined

IsWS(c) == c = " "

RECURSIVE TrimLeft(_)
TrimLeft(s) == IF s # <<>> /\ IsWS(Head(s)) THEN TrimLeft(Tail(s)) ELSE s

RECURSIVE TrimRight(_)
TrimRight(s) ==
    IF s # <<>> /\ IsWS(s[Len(s)]) THEN TrimRight(SubSeq(s, 1, Len(s) - 1)) ELSE s

\* String.prototype.trim
Trim(s) == TrimRight(TrimLeft(s))

Digits == <<"0", "1", "2", "3", "4", "5", "6", "7", "8", "9">>

IsDigit(c) == \E d \in 1..10 : Digits[d] = c

DigitVal(c) == (CHOOSE d \in 1..10 : Digits[d] = c) - 1

RECURSIVE DecVal(_)
DecVal(s) == IF s = <<>> THEN 0 ELSE 10 * DecVal(SubSeq(s, 1, Len(s) - 1)) + DigitVal(s[Len(s)])

AllDigits(s) == s # <<>> /\ \A k \in 1..Len(s) : IsDigit(s[k])

\* Number(x) for undefined and for strings over the alphabet of the model
\* (space, letters, "-", "%", decimal digits): whitespace is trimmed, the
\* empty string is 0, an optionally signed run of digits is its value, and
\* anything else is NaN.
ToNumber(x) ==
    IF x.t = "undef" THEN NaN
    ELSE IF x.t = "null" THEN Num(0)
    ELSE IF x.t = "num" \/ x.t = "nan" THEN x
    ELSE LET s == Trim(x.v) IN
         IF s = <<>> THEN Num(0)
         ELSE IF AllDigits(s) THEN Num(DecVal(s))
         ELSE IF Head(s) = "-" /\ AllDigits(Tail(s)) THEN Num(0 - DecVal(Tail(s)))
         ELSE NaN

----------------------------------------------------------------------------
(* Texts of the program *)

SHEET_NAME == <<"S", "h", "e", "e", "t", "1">>
HService == <<"S", "e", "r", "v", "i", "c", "e">>
HSubheading == <<"S", "u", "b", "h", "e", "a", "d", "i", "n", "g">>
HCompliant == <<"C", "o", "m", "p", "l", "i", "a", "n", "t">>
HTotal == <<"T", "o", "t", "a", "l">>
HMising == <<"M", "i", "s", "i", "n", "g">>
HPctCompliant == <<"%", " ">> \o HCompliant
HStatusC == <<"S", "t", "a", "t", "u", "s", " ", "C">>
HStatusE == <<"S", "t", "a", "t", "u", "s", " ", "E">>
Dash == <<"-">>
NullText == <<"n", "u", "l", "l">>

----------------------------------------------------------------------------
(* Grid variant: rgbToColorName and parseSheetData of part_000 *)

\* A colour object is a function from a subset of {"red","green","blue"} to
\* tenths (0..10); the thresholds 0.8, 0.2, 0.5 are 8, 2, 5 tenths.
Comp(c, k) == IF k \in DOMAIN c THEN c[k] ELSE 0

\* bug: the red threshold is inclusive
rgbToColorNameInclusive(rgbColor) ==
    IF rgbColor.t = "undef" THEN "Gray"
    ELSE LET red == Comp(rgbColor.v, "red")
             green == Comp(rgbColor.v, "green")
             blue == Comp(rgbColor.v, "blue")
         IN  IF red >= 8 /\ green < 2 /\ blue < 2 THEN "Red"
             ELSE IF green > 5 /\ red < 5 THEN "Green"
             ELSE "Gray"

rgbToColorName(rgbColor) ==
    IF rgbColor.t = "undef" THEN "Gray"
    ELSE LET red == Comp(rgbColor.v, "red")
             green == Comp(rgbColor.v, "green")
             blue == Comp(rgbColor.v, "blue")
         IN  IF red > 8 /\ green < 2 /\ blue < 2 THEN "Red"
             ELSE IF green > 5 /\ red < 5 THEN "Green"
             ELSE "Gray"

\* headers.forEach: a later header with the same trimmed text overrides
RECURSIVE BuildHeaderMap(_, _)
BuildHeaderMap(headers, n) ==
    IF n = 0 THEN [k \in {} |-> 0]
    ELSE LET m == BuildHeaderMap(headers, n - 1)
             h == headers[n]
         IN  IF Truthy(h) THEN (Trim(h.v) :> n) @@ m ELSE m

\* rowData: a JavaScript array of cells [formattedValue, backgroundColor]
getCellData(headerMap, rowData, headerName) ==
    IF headerName \notin DOMAIN headerMap THEN [value |-> Str(<<>>), color |-> "Gray"]
    ELSE LET cell == At(rowData, headerMap[headerName]) IN
         IF ~Truthy(cell) THEN [value |-> Str(<<>>), color |-> "Gray"]
         ELSE [value |-> JsOr(cell.v.formattedValue, Str(<<>>)),
               color |-> rgbToColorName(cell.v.backgroundColor)]

Thrown == [t |-> "throw"]

\* gridData.sheets.find(s => s.properties.title === SHEET_NAME): the first
\* matching sheet, undefined when there is none, Thrown when a sheet met
\* before a match has no properties
RECURSIVE FindSheet(_, _)
FindSheet(sheets, k) ==
    IF k > Len(sheets.v) THEN Undefined
    ELSE LET s == sheets.v[k] IN
         IF s.v.properties.t = "undef" THEN Thrown
         ELSE IF s.v.properties.v.title = Str(SHEET_NAME) THEN s
         ELSE FindSheet(sheets, k + 1)

\* Lines 60-73: [kind |-> "throw"], [kind |-> "empty"] (the early return) or
\* [kind |-> "rows", rows, headerMap]
GridHead(gridData) ==
    IF gridData.v.sheets.t = "undef" THEN [kind |-> "throw"]
    ELSE LET sheet == FindSheet(gridData.v.sheets, 1) IN
         IF sheet.t = "throw" THEN [kind |-> "throw"]
         ELSE IF ~Truthy(sheet) \/ ~Truthy(sheet.v.data) THEN [kind |-> "empty"]
         ELSE IF At(sheet.v.data, 1).t = "undef" THEN [kind |-> "throw"]
         ELSE IF ~Truthy(At(sheet.v.data, 1).v.rowData) THEN [kind |-> "empty"]
         ELSE LET rows == At(sheet.v.data, 1).v.rowData IN
              IF At(rows, 1).t = "undef" THEN [kind |-> "throw"]
              ELSE IF At(rows, 1).v.values.t = "undef" THEN [kind |-> "throw"]
              ELSE LET cells == At(rows, 1).v.values.v
                       headers == [k \in 1..Len(cells) |-> cells[k].v.formattedValue]
                   IN  [kind |-> "rows", rows |-> rows,
                        headerMap |-> BuildHeaderMap(headers, Len(headers))]

\* bug: the status object is written whatever the text
StatusOfAlways(key, cd) == key :> Obj([name |-> cd.value, colour |-> cd.color])

\* Lines 104-118: the status object of one status column, when its text is
\* not empty
StatusOf(key, cd) ==
    IF Truthy(cd.value) THEN (key :> Obj([name |-> cd.value, colour |-> cd.color]))
    ELSE [k \in {} |-> 0]

\* bug: the name test without the trim
IsNameRowNoTrim(serviceName) == Truthy(serviceName)

IsNameRow(serviceName) == Truthy(serviceName) /\ Trim(serviceName.v) # <<>>

\* Lines 96-118: the entity a name row creates
NewEntity(headerMap, rowData) ==
    StatusOf("status_E", getCellData(headerMap, rowData, HStatusE))
    @@ StatusOf("status_C", getCellData(headerMap, rowData, HStatusC))
    @@ ("%Compliant" :> getCellData(headerMap, rowData, HPctCompliant).value)
    @@ [Subheading |-> Obj([k \in {} |-> 0]),
        Compliant |-> JsOr(ToNumber(getCellData(headerMap, rowData, HCompliant).value), JsNull),
        Total |-> getCellData(headerMap, rowData, HTotal).value,
        Mising |-> getCellData(headerMap, rowData, HMising).value]

\* bug: the owner key is the untrimmed text
OwnerAfterNoTrim(cur, serviceName) ==
    IF IsNameRow(serviceName) THEN Str(serviceName.v) ELSE cur

\* Lines 94-95: currentServiceKey after the name test of a row
OwnerAfter(cur, serviceName) ==
    IF IsNameRow(serviceName) THEN Str(Trim(serviceName.v)) ELSE cur

\* Line 121: the subheading of this row is attached
Attaches(cur, subheadingName) ==
    Truthy(cur) /\ Truthy(subheadingName) /\ Trim(subheadingName.v) # <<>>

\* Lines 122-128: the entity with the subheading entry set
WithSubheading(entity, subKey, color) ==
    LET sub == IF entity.Subheading.t # "obj" THEN Obj([k \in {} |-> 0])
               ELSE entity.Subheading
    IN  [entity EXCEPT !.Subheading = Obj((subKey :> [colour |-> color]) @@ sub.v)]

\* Lines 76-129: one iteration of the row loop on st = [data, cur]
GridRowStep(headerMap, st, row) ==
    LET rowData == JsOr(row.v.values, Arr(<<>>))
        serviceName == getCellData(headerMap, rowData, HService).value
        subheadingCell == getCellData(headerMap, rowData, HSubheading)
        subheadingName == subheadingCell.value
        cur1 == OwnerAfter(st.cur, serviceName)
        data1 == IF IsNameRow(serviceName)
                 THEN (cur1.v :> NewEntity(headerMap, rowData)) @@ st.data
                 ELSE st.data
        data2 == IF Attaches(cur1, subheadingName)
                 THEN [data1 EXCEPT ![cur1.v] =
                          WithSubheading(@, Trim(subheadingName.v), subheadingCell.color)]
                 ELSE data1
    IN  [data |-> data2, cur |-> cur1]

\* bug: the cleanup is left out
CleanEntityNoop(entity) == entity

\* Lines 133-137: the final cleanup of one entity
CleanEntity(entity) ==
    IF Truthy(entity.Subheading) /\ entity.Subheading.t = "obj"
       /\ DOMAIN entity.Subheading.v = {}
    THEN [entity EXCEPT !.Subheading = Num(0)]
    ELSE entity

Cleanup(d) == [k \in DOMAIN d |-> CleanEntity(d[k])]

\* { [SHEET_NAME]: data }
Wrap(d) == Obj(SHEET_NAME :> d)

NoData == [k \in {} |-> 0]

RECURSIVE GridFold(_, _, _, _)
GridFold(headerMap, rows, i, st) ==
    IF i > Len(rows.v) THEN st
    ELSE GridFold(headerMap, rows, i + 1, GridRowStep(headerMap, st, rows.v[i]))

\* parseSheetData of part_000 as a whole: the returned value, or Thrown
parseSheetDataGrid(gridData) ==
    LET h == GridHead(gridData) IN
    IF h.kind = "throw" THEN Thrown
    ELSE IF h.kind = "empty" THEN Wrap(NoData)
    ELSE Wrap(Cleanup(GridFold(h.headerMap, h.rows, 2,
                               [data |-> NoData, cur |-> JsNull]).data))

----------------------------------------------------------------------------
(* Flat variant: parseSheetData of index.js *)

UndefinedText == <<"u", "n", "d", "e", "f", "i", "n", "e", "d">>

\* a computed property key: ToString of the header cell
KeyOf(h) == IF h.t = "undef" THEN UndefinedText ELSE h.v

\* row[k] === "-" ? null : f(row[k])
DashNull(x, other) == IF x = Str(Dash) THEN JsNull ELSE other

\* Lines 42-47: the object literal; a later key with the same text wins
FlatEntity(headers, row) ==
    (KeyOf(At(headers, 5)) :> DashNull(At(row, 5), At(row, 5)))
    @@ (KeyOf(At(headers, 4)) :> DashNull(At(row, 4), At(row, 4)))
    @@ (KeyOf(At(headers, 3)) :> DashNull(At(row, 3), ToNumber(At(row, 3))))
    @@ (KeyOf(At(headers, 2)) :>
          IF At(row, 2) = Str(Dash) \/ At(row, 2) = Str(NullText) THEN JsNull
          ELSE ToNumber(At(row, 2)))

\* Line 40: if (!serviceName) continue
FlatSkips(row) == ~Truthy(At(row, 1))

\* Lines 38-47: one iteration of the row loop on st = [data, cur]
FlatRowStep(headers, st, row) ==
    IF FlatSkips(row) THEN st
    ELSE [data |-> (At(row, 1).v :> FlatEntity(headers, row)) @@ st.data, cur |-> st.cur]

RECURSIVE FlatFold(_, _, _)
FlatFold(rows, i, st) ==
    IF i > Len(rows.v) THEN st
    ELSE FlatFold(rows, i + 1, FlatRowStep(At(rows, 1), st, rows.v[i]))

\* parseSheetData of index.js as a whole: rows[0] of undefined throws
parseSheetDataFlat(rows) ==
    IF rows.t = "undef" THEN Thrown
    ELSE Wrap(FlatFold(rows, 2, [data |-> NoData, cur |-> JsNull]).data)

parseSheetData(v, x) == IF v = "grid" THEN parseSheetDataGrid(x) ELSE parseSheetDataFlat(x)

----------------------------------------------------------------------------
(* Inputs of the parser *)

\* data rows of a grid; data rows of a grid whose compliant text is varied
MaxRows == 3
MaxCompRows == 2

Red == Obj([red |-> 10])
Green == Obj([green |-> 10, blue |-> 1])
White == Obj([red |-> 10, green |-> 10, blue |-> 10])

Cell(fv, bg) == Obj([formattedValue |-> fv, backgroundColor |-> bg])
TextCell(s) == Cell(Str(s), Undefined)
RowOf(cells) == Obj([values |-> Arr(cells)])

\* a data row under the standard header
DataRow(name, sub, subBg, comp, statusC, statusE) ==
    RowOf(<<Cell(name, Green), Cell(sub, subBg), Cell(comp, Undefined),
            TextCell(<<"1", "0", "0">>), TextCell(Dash), TextCell(<<"9", "5", "%">>),
            statusC, statusE>>)

StdHeader ==
    RowOf(<<TextCell(HService), TextCell(HSubheading), TextCell(HCompliant),
            TextCell(HTotal), TextCell(HMising), TextCell(HPctCompliant),
            TextCell(HStatusC), TextCell(HStatusE)>>)

\* header texts that need trimming
PaddedHeader ==
    RowOf(<<TextCell(<<" ">> \o HService \o <<" ">>), TextCell(HSubheading \o <<" ">>),
            TextCell(HCompliant), TextCell(HTotal), TextCell(HMising),
            TextCell(HPctCompliant), TextCell(HStatusC), TextCell(HStatusE)>>)

\* no Subheading column: its header cell is empty
NoSubHeader ==
    RowOf(<<TextCell(HService), Cell(Undefined, Undefined), TextCell(HCompliant),
            TextCell(HTotal), TextCell(HMising), TextCell(HPctCompliant),
            TextCell(HStatusC), TextCell(HStatusE)>>)

Headers == <<StdHeader, PaddedHeader, NoSubHeader>>

CompTexts ==
    <<Str(<<"4", "2">>), Undefined, Str(Dash), Str(NullText), Str(<<"0">>),
      Str(<<" ", "7", " ">>), Str(<<"a", "b", "c">>), Str(<<" ">>)>>

\* the rows a grid is made of, for one text of the compliant cells
RowPool(comp) ==
    << Obj([values |-> Undefined]),
       RowOf(<<TextCell(<<"C">>)>>),
       DataRow(Str(<<" ">>), Str(<<"x">>), Red, comp,
               TextCell(<<"O", "K">>), Cell(Undefined, Red)),
       DataRow(Undefined, Str(<<" ", "y", " ">>), Undefined, comp,
               Cell(Undefined, Undefined), Cell(Str(<<"K", "O">>), Red)),
       DataRow(Str(<<"A">>), Str(<<" ">>), Red, comp,
               Cell(Str(<<"O", "K">>), Green), Cell(Str(<<"K", "O">>), Red)),
       DataRow(Str(<<"A", " ">>), Str(<<"x">>), Green, comp,
               Cell(Undefined, Green), TextCell(<<"N", "O">>)),
       DataRow(Str(<<" ", "B">>), Str(<<"y">>), White, comp,
               Cell(Str(Dash), Red), Cell(Str(<<>>), Green)) >>

SeqsUpTo(S, n) == UNION {[1..k -> S] : k \in 0..n}

Sheet(title, d) == Obj([properties |-> Obj([title |-> Str(title)]), data |-> d])

GridOf(rowData) == Obj([sheets |-> Arr(<<Sheet(SHEET_NAME, Arr(<<Obj([rowData |-> rowData])>>))>>)])

OtherTitle == <<"S", "h", "e", "e", "t", "2">>

\* responses that lack a part of the grid
MalformedGrids ==
    << Obj([sheets |-> Undefined]),
       Obj([sheets |-> Arr(<<>>)]),
       Obj([sheets |-> Arr(<<Sheet(OtherTitle, Arr(<<Obj([rowData |-> Arr(<<StdHeader>>)])>>))>>)]),
       Obj([sheets |-> Arr(<<Obj([properties |-> Undefined, data |-> Undefined])>>)]),
       Obj([sheets |-> Arr(<<Sheet(SHEET_NAME, Undefined)>>)]),
       Obj([sheets |-> Arr(<<Sheet(SHEET_NAME, Arr(<<>>))>>)]),
       GridOf(Undefined),
       GridOf(Arr(<<>>)),
       GridOf(Arr(<<Obj([values |-> Undefined])>>)) >>

FlatHeader == Arr(<<Str(HService), Str(HCompliant), Str(HTotal), Str(HMising), Str(HPctCompliant)>>)

FlatRowPool ==
    << Arr(<<>>),
       Arr(<<Str(<<"A">>), Str(<<"4", "2">>), Str(<<"1", "0">>), Str(<<"5">>), Str(<<"9", "5", "%">>)>>),
       Arr(<<Str(<<"A">>), Str(Dash), Str(Dash), Str(Dash), Str(Dash)>>),
       Arr(<<Str(<<" ">>), Str(<<"1">>)>>),
       Arr(<<Str(<<>>), Str(<<"5">>), Str(<<"5">>)>>),
       Arr(<<Str(<<"B">>), Str(NullText), Str(<<"0">>)>>),
       Arr(<<Str(<<"B">>), Str(<<>>), Str(<<>>), Str(<<>>), Str(<<>>)>>),
       Arr(<<Str(<<"C">>), Str(<<"a", "b", "c">>), Str(<<"7">>)>>),
       Arr(<<Str(<<"C">>)>>) >>

\* response.data.values: absent for a sheet without values
MalformedFlat == <<Undefined, Arr(<<>>)>>

\* An input is named by [bad, hdr, comp, rows]: bad > 0 is the malformed
\* response of that index; otherwise the header, the text of the compliant
\* cells and the data rows, each by its index in the pools above.
GridIds ==
    {[bad |-> k, hdr |-> 1, comp |-> 1, rows |-> <<>>] : k \in 1..Len(MalformedGrids)}
    \cup {[bad |-> 0, hdr |-> h, comp |-> 1, rows |-> r] :
            h \in 1..Len(Headers), r \in SeqsUpTo(1..Len(RowPool(Undefined)), MaxRows)}
    \cup {[bad |-> 0, hdr |-> 1, comp |-> c, rows |-> r] :
            c \in 1..Len(CompTexts), r \in SeqsUpTo(1..Len(RowPool(Undefined)), MaxCompRows)}

FlatIds ==
    {[bad |-> k, hdr |-> 1, comp |-> 1, rows |-> <<>>] : k \in 1..Len(MalformedFlat)}
    \cup {[bad |-> 0, hdr |-> 1, comp |-> 1, rows |-> r] :
            r \in SeqsUpTo(1..Len(FlatRowPool), MaxRows)}

InputIds(v) == IF v = "grid" THEN GridIds ELSE FlatIds

\* the value an input id names
InputOf(v, id) ==
    IF v = "grid"
    THEN IF id.bad > 0 THEN MalformedGrids[id.bad]
         ELSE GridOf(Arr(<<Headers[id.hdr]>>
                         \o [k \in 1..Len(id.rows) |-> RowPool(CompTexts[id.comp])[id.rows[k]]]))
    ELSE IF id.bad > 0 THEN MalformedFlat[id.bad]
         ELSE Arr(<<FlatHeader>> \o [k \in 1..Len(id.rows) |-> FlatRowPool[id.rows[k]]])

\* the argument of parseSheetData
input == InputOf(variant, inputId)

----------------------------------------------------------------------------
(* The server: fetchSheetData and the handler of GET /api/sheet-data        *)

CACHE_DURATION == 30000

MaxReq == 2
MaxTicks == 2

\* the steps of the clock between two events (ms)
ClockSteps == {1, CACHE_DURATION - 1}

\* what the upstream may answer with (input ids, see InputOf)
ResponseIds(v) ==
    IF v = "grid"
    THEN {[bad |-> 0, hdr |-> 1, comp |-> 1, rows |-> <<5, 4>>],
          [bad |-> 0, hdr |-> 1, comp |-> 1, rows |-> <<7>>],
          [bad |-> 8, hdr |-> 1, comp |-> 1, rows |-> <<>>]}
    ELSE {[bad |-> 0, hdr |-> 1, comp |-> 1, rows |-> <<2, 6>>],
          [bad |-> 0, hdr |-> 1, comp |-> 1, rows |-> <<8>>],
          [bad |-> 1, hdr |-> 1, comp |-> 1, rows |-> <<>>]}

NoResponse == [bad |-> 0 - 1, hdr |-> 1, comp |-> 1, rows |-> <<>>]

\* bug: the entry is still served at age == CACHE_DURATION
IsFreshInclusive(c, ts, now) == Truthy(c) /\ now - ts <= CACHE_DURATION

\* bug: the entry expires one millisecond early
IsFreshEarly(c, ts, now) == Truthy(c) /\ now - ts < CACHE_DURATION - 1

\* Line 150 (index.js 57): cache && now - cacheTimestamp < CACHE_DURATION
IsFresh(c, ts, now) == Truthy(c) /\ now - ts < CACHE_DURATION

\* bug: a failed parse clears the slot
CacheAfterClearing(parsed, c, r) ==
    IF parsed = Thrown THEN JsNull ELSE [t |-> "obj", by |-> r, v |-> parsed.v]

\* Lines 160-162 (index.js 63-65): the slot after parseSheetData ran on the
\* response of request r; the object built for r is tagged with r
CacheAfter(parsed, c, r) ==
    IF parsed = Thrown THEN c ELSE [t |-> "obj", by |-> r, v |-> parsed.v]

\* bug: the timestamp is the time of the store, not the start of the fetch
StampAfterAtStore(parsed, ts, now, clk) == IF parsed = Thrown THEN ts ELSE clk

\* bug: the timestamp is written before the parse, so also when it throws
StampAfterAlways(parsed, ts, now, clk) == now

\* Lines 160-163 (index.js 63-66): cacheTimestamp = now
StampAfter(parsed, ts, now, clk) == IF parsed = Thrown THEN ts ELSE now

\* bug: the 500 answer leaves out the details
ErrorBodyNoDetails(message) == Obj([error |-> "Failed to fetch sheet data"])

\* Line 180 (index.js 80): the body of the 500 answer
ErrorBody(message) == Obj([error |-> "Failed to fetch sheet data", details |-> message])

\* the client addresses
Clients == {"a", "b"}

\* no request has been made
NoRequest == [path |-> <<"none">>, status |-> 0, get |-> FALSE]

\* Lines 22-28 (index.js 21-25): the limiter starts with no client counted
LimiterInit ==
    /\ hits = [c \in Clients |-> 0]
    /\ resetTime = [c \in Clients |-> 0]
    /\ windowFrom = [c \in Clients |-> 0]
    /\ reached = [c \in Clients |-> 0]
    /\ last = NoRequest

\* the start of the process is not followed
BootIdle ==
    /\ env = [SHEET_ID |-> Str(<<"k">>), API_KEY |-> Str(<<"k">>), PORT |-> Undefined]
    /\ bpc = "up"
    /\ mounted = {}
    /\ listening = Undefined
    /\ served = FALSE

\* no call of rgbToColorName is under way
ColourIdle == theColor = Undefined /\ colorName = ""

\* the parts of the state that the server and the parser leave alone
ExtraIdle == ColourIdle /\ LimiterInit /\ BootIdle

ServerInit ==
    /\ cache = JsNull
    /\ cacheTimestamp = 0
    /\ clock = 1
    /\ ticks = 0
    /\ req = <<>>

Init ==
    /\ variant \in {"grid", "flat"}
    /\ inputId = NoResponse
    /\ ppc = "start"
    /\ theRows = Undefined
    /\ theHeaders = Undefined
    /\ rowIdx = 0
    /\ data = NoData
    /\ currentServiceKey = JsNull
    /\ result = Undefined
    /\ ServerInit
    /\ ExtraIdle

\* time passes
Tick ==
    /\ ticks < MaxTicks
    /\ \E d \in ClockSteps : clock' = clock + d
    /\ ticks' = ticks + 1
    /\ UNCHANGED <<xvars, variant, pvars, cache, cacheTimestamp, req>>

\* A request arrives and fetchSheetData returns the cache (lines 148-153,
\* 176-177; index.js 55-59, 77-78).  saw, sawTs: the slot when the call
\* started.
ServeFromCache ==
    /\ Len(req) < MaxReq
    /\ IsFresh(cache, cacheTimestamp, clock)
    /\ req' = Append(req, [pc |-> "done", now |-> clock, gets |-> 0,
                           resp |-> NoResponse, status |-> 200, body |-> cache,
                           saw |-> cache, sawTs |-> cacheTimestamp])
    /\ UNCHANGED <<xvars, variant, pvars, cache, cacheTimestamp, clock, ticks>>

\* A request arrives and fetchSheetData issues the upstream GET and awaits
\* it (lines 148-159; index.js 55-62)
StartFetch ==
    /\ Len(req) < MaxReq
    /\ ~IsFresh(cache, cacheTimestamp, clock)
    /\ req' = Append(req, [pc |-> "await", now |-> clock, gets |-> 1,
                           resp |-> NoResponse, status |-> 0, body |-> Undefined,
                           saw |-> cache, sawTs |-> cacheTimestamp])
    /\ UNCHANGED <<xvars, variant, pvars, cache, cacheTimestamp, clock, ticks>>

\* Line 160 (index.js 63): what parseSheetData makes of each upstream response
Parsed ==
    [v \in {"grid", "flat"} |->
        [id \in ResponseIds(v) |-> parseSheetData(v, InputOf(v, id))]]

\* The upstream answers request r: parse, store, answer 200; or the parse
\* throws and the handler answers 500 (lines 159-166, 176-180; index.js
\* 62-67, 77-80)
UpstreamResolve(r) ==
    /\ req[r].pc = "await"
    /\ \E id \in ResponseIds(variant) :
          LET parsed == Parsed[variant][id] IN
          /\ cache' = CacheAfter(parsed, cache, r)
          /\ cacheTimestamp' = StampAfter(parsed, cacheTimestamp, req[r].now, clock)
          /\ req' = [req EXCEPT ![r] =
                        [@ EXCEPT !.pc = "done", !.resp = id,
                                  !.status = IF parsed = Thrown THEN 500 ELSE 200,
                                  !.body = IF parsed = Thrown
                                           THEN ErrorBody("TypeError")
                                           ELSE cache']]
    /\ UNCHANGED <<xvars, variant, pvars, clock, ticks>>

\* The upstream call of request r rejects: the handler answers 500 (lines
\* 159, 178-180; index.js 62, 79-80)
UpstreamReject(r) ==
    /\ req[r].pc = "await"
    /\ req' = [req EXCEPT ![r] =
                  [@ EXCEPT !.pc = "done", !.status = 500,
                            !.body = ErrorBody("Network Error")]]
    /\ UNCHANGED <<xvars, variant, pvars, cache, cacheTimestamp, clock, ticks>>

Next ==
    \/ Tick
    \/ ServeFromCache
    \/ StartFetch
    \/ \E r \in 1..Len(req) : UpstreamResolve(r)
    \/ \E r \in 1..Len(req) : UpstreamReject(r)

Spec == Init /\ [][Next]_vars

----------------------------------------------------------------------------
(* The requests as the claims read them *)

Requests == 1..Len(req)

\* the slot that request r found was empty or stale
SawStale(r) == req[r].saw = JsNull \/ req[r].now - req[r].sawTs >= CACHE_DURATION

Answered(r, status) == req[r].pc = "done" /\ req[r].status = status

\* what parseSheetData makes of the upstream response of request r
Transformed(r) == parseSheetData(variant, InputOf(variant, req[r].resp))

(* C1 as stated: of two calls that start less than CACHE_DURATION apart, at *)
(* most one issues an upstream GET, and both return the same value.        *)
C1_AsStated ==
    \A i, j \in Requests :
        (i < j /\ req[j].now - req[i].now < CACHE_DURATION) =>
            /\ req[i].gets + req[j].gets <= 1
            /\ (Answered(i, 200) /\ Answered(j, 200)) => req[i].body = req[j].body

(* C1 amended: when the first call missed the cache and completed, and the  *)
(* second starts less than CACHE_DURATION after the start of the first and  *)
(* while the slot still holds the first call's result, the second issues no *)
(* upstream GET (one in total) and both return the same value.              *)
C1_OneFetchWithinTtl ==
    \A i, j \in Requests :
        (/\ Answered(i, 200) /\ req[i].gets = 1
         /\ req[j].saw = req[i].body
         /\ req[j].now - req[i].now < CACHE_DURATION) =>
            /\ req[i].gets + req[j].gets = 1
            /\ Answered(j, 200)
            /\ req[j].body = req[i].body

\* the second call came in the last millisecond of the window
C1_Witness ==
    \E i, j \in Requests :
        /\ Answered(i, 200) /\ req[i].gets = 1
        /\ req[j].saw = req[i].body
        /\ req[j].now - req[i].now = CACHE_DURATION - 1
        /\ Answered(j, 200)

(* C2: a call that starts with the cache empty or of age >= CACHE_DURATION  *)
(* issues exactly one upstream GET and does not return the stored value; a *)
(* call that starts with the cache present and of age < CACHE_DURATION      *)
(* returns the stored value and issues no upstream GET.                     *)
C2_MissIffStale ==
    \A r \in Requests :
        /\ SawStale(r) =>
              /\ req[r].gets = 1
              /\ Answered(r, 200) => (req[r].body # req[r].saw /\ req[r].body.by = r)
        /\ ~SawStale(r) =>
              /\ req[r].gets = 0
              /\ Answered(r, 200)
              /\ req[r].body = req[r].saw

\* a call that started at age == CACHE_DURATION of a successful fetch
C2_Witness ==
    \E r \in Requests :
        /\ req[r].saw # JsNull
        /\ req[r].now - req[r].sawTs = CACHE_DURATION
        /\ req[r].gets = 1
        /\ Answered(r, 200)

(* C3: when the upstream call of a request rejects or the parse of its      *)
(* response throws, the request is answered 500 with {error, details}, it   *)
(* has issued one upstream GET only, and cache and cacheTimestamp are as    *)
(* they were; a call that arrives after a failure and finds the slot of age *)
(* < CACHE_DURATION is answered with the cached value.                      *)
C3_FailureStep ==
    /\ \A r \in Requests :
          (/\ req[r].pc = "await" /\ req'[r].pc = "done"
           /\ (req'[r].resp = NoResponse
               \/ parseSheetData(variant, InputOf(variant, req'[r].resp)) = Thrown)) =>
              /\ req'[r].status = 500
              /\ req'[r].body.t = "obj"
              /\ DOMAIN req'[r].body.v = {"error", "details"}
              /\ req'[r].gets = 1
              /\ cache' = cache
              /\ cacheTimestamp' = cacheTimestamp
    /\ (/\ Len(req') = Len(req) + 1
        /\ \E f \in Requests : Answered(f, 500)
        /\ cache # JsNull /\ clock - cacheTimestamp < CACHE_DURATION) =>
          /\ req'[Len(req')].status = 200
          /\ req'[Len(req')].body = cache
          /\ req'[Len(req')].gets = 0

C4_SlotOfOneRequest ==
    /\ \A r \in Requests : SawStale(r) => req[r].gets = 1
    /\ \/ cache = JsNull /\ cacheTimestamp = 0
       \/ \E r \in Requests :
             /\ Answered(r, 200) /\ req[r].gets = 1
             /\ cache = req[r].body
             /\ cacheTimestamp = req[r].now
    /\ \A r \in Requests :
          Answered(r, 200) =>
              \E w \in Requests :
                  /\ req[w].gets = 1 /\ req[w].resp # NoResponse
                  /\ Transformed(w) # Thrown
                  /\ req[r].body = [t |-> "obj", by |-> w, v |-> Transformed(w).v]

C4_StoreStep ==
    \A r \in Requests :
        (req[r].pc = "await" /\ req'[r].pc = "done" /\ req'[r].status = 200) =>
            /\ cache' = req'[r].body
            /\ cache'.by = r
            /\ cacheTimestamp' = req[r].now

C4_LastWriterWins == []C4_SlotOfOneRequest /\ [][C4_StoreStep]_vars

\* two requests saw the empty cache; the one that started first completed
\* last and the slot is its result and start time
C4_Witness ==
    /\ Len(req) = 2
    /\ req[1].saw = JsNull /\ req[2].saw = JsNull
    /\ req[1].now < req[2].now
    /\ Answered(1, 200) /\ Answered(2, 200)
    /\ cache = req[1].body /\ cache # req[2].body
    /\ cacheTimestamp = req[1].now

----------------------------------------------------------------------------
(* One run of parseSheetData, one loop iteration per step *)

InitParse ==
    /\ variant \in {"grid", "flat"}
    /\ inputId \in InputIds(variant)
    /\ ppc = "start"
    /\ theRows = Undefined
    /\ theHeaders = Undefined
    /\ rowIdx = 0
    /\ data = NoData
    /\ currentServiceKey = JsNull
    /\ result = Undefined
    /\ ServerInit
    /\ ExtraIdle

\* part_000 lines 60-73
GridStart ==
    /\ variant = "grid" /\ ppc = "start"
    /\ LET h == GridHead(input) IN
       /\ ppc' = IF h.kind = "throw" THEN "threw"
                 ELSE IF h.kind = "empty" THEN "done" ELSE "loop"
       /\ result' = IF h.kind = "empty" THEN Wrap(NoData) ELSE result
       /\ theRows' = IF h.kind = "rows" THEN h.rows ELSE theRows
       /\ theHeaders' = IF h.kind = "rows" THEN h.headerMap ELSE theHeaders
       /\ rowIdx' = IF h.kind = "rows" THEN 2 ELSE rowIdx
    /\ UNCHANGED <<variant, inputId, data, currentServiceKey, svars, xvars>>

\* part_000 lines 75-130, one iteration
GridRow ==
    /\ variant = "grid" /\ ppc = "loop"
    /\ rowIdx <= Len(theRows.v)
    /\ LET st == GridRowStep(theHeaders, [data |-> data, cur |-> currentServiceKey],
                             theRows.v[rowIdx])
       IN  data' = st.data /\ currentServiceKey' = st.cur
    /\ rowIdx' = rowIdx + 1
    /\ UNCHANGED <<variant, inputId, ppc, theRows, theHeaders, result, svars, xvars>>

\* part_000 lines 132-139
GridFinish ==
    /\ variant = "grid" /\ ppc = "loop"
    /\ rowIdx > Len(theRows.v)
    /\ data' = Cleanup(data)
    /\ result' = Wrap(data')
    /\ ppc' = "done"
    /\ UNCHANGED <<variant, inputId, theRows, theHeaders, rowIdx, currentServiceKey, svars, xvars>>

\* index.js lines 34-35: theRows[0] of undefined throws
FlatStart ==
    /\ variant = "flat" /\ ppc = "start"
    /\ ppc' = IF input.t = "undef" THEN "threw" ELSE "loop"
    /\ theRows' = input
    /\ theHeaders' = IF input.t = "undef" THEN theHeaders ELSE At(input, 1)
    /\ rowIdx' = IF input.t = "undef" THEN rowIdx ELSE 2
    /\ UNCHANGED <<variant, inputId, data, currentServiceKey, result, svars, xvars>>

\* index.js lines 37-48, one iteration
FlatRow ==
    /\ variant = "flat" /\ ppc = "loop"
    /\ rowIdx <= Len(theRows.v)
    /\ LET st == FlatRowStep(theHeaders, [data |-> data, cur |-> currentServiceKey],
                             theRows.v[rowIdx])
       IN  data' = st.data /\ currentServiceKey' = st.cur
    /\ rowIdx' = rowIdx + 1
    /\ UNCHANGED <<variant, inputId, ppc, theRows, theHeaders, result, svars, xvars>>

\* index.js line 50
FlatFinish ==
    /\ variant = "flat" /\ ppc = "loop"
    /\ rowIdx > Len(theRows.v)
    /\ result' = Wrap(data)
    /\ ppc' = "done"
    /\ UNCHANGED <<variant, inputId, theRows, theHeaders, rowIdx, data, currentServiceKey, svars, xvars>>

NextParse == GridStart \/ GridRow \/ GridFinish \/ FlatStart \/ FlatRow \/ FlatFinish

SpecParse == InitParse /\ [][NextParse]_vars

\* the stepwise run returns what the function returns
ParseAgrees ==
    /\ ppc = "done" => result = parseSheetData(variant, input)
    /\ ppc = "threw" => parseSheetData(variant, input) = Thrown

----------------------------------------------------------------------------
(* The rows as the claims read them (grid variant, once the loop is         *)
(* entered): the cell texts of data row i and the row that owns it          *)

InGridLoop == variant = "grid" /\ ppc \in {"loop", "done"} /\ theRows.t = "arr"

LastRow == Len(theRows.v)

RowData(i) == JsOr(theRows.v[i].v.values, Arr(<<>>))

NameOf(i) == Trim(getCellData(theHeaders, RowData(i), HService).value.v)
SubOf(i) == Trim(getCellData(theHeaders, RowData(i), HSubheading).value.v)
SubColour(i) == getCellData(theHeaders, RowData(i), HSubheading).color
HasName(i) == NameOf(i) # <<>>
HasSub(i) == SubOf(i) # <<>>

\* the nearest row at or before i with a name (0: none)
OwnerRow(i) ==
    IF \E j \in 2..i : HasName(j)
    THEN CHOOSE j \in 2..i : HasName(j) /\ \A m \in (j + 1)..i : ~HasName(m)
    ELSE 0

\* the last row that starts the entity of key k (0: none)
StartRow(k) ==
    IF \E j \in 2..LastRow : HasName(j) /\ NameOf(j) = k
    THEN CHOOSE j \in 2..LastRow :
            /\ HasName(j) /\ NameOf(j) = k
            /\ \A m \in (j + 1)..LastRow : ~(HasName(m) /\ NameOf(m) = k)
    ELSE 0

\* the subheading texts of the rows owned by row j
AttachedTo(j) == {SubOf(i) : i \in {m \in j..LastRow : HasSub(m) /\ OwnerRow(m) = j}}

Entities == result.v[SHEET_NAME]

Colours == {"Red", "Green", "Gray"}

----------------------------------------------------------------------------
(* C5: after parseSheetData (grid variant) every entity of the output has   *)
(* Subheading = 0 iff no subheading entry was attached to it, and           *)
(* otherwise a non-empty mapping from the trimmed subheading texts attached *)
(* to it to {colour}; no entity has an empty mapping.                       *)
C5_SubheadingZeroIffNone ==
    (InGridLoop /\ ppc = "done") =>
        \A k \in DOMAIN Entities :
            LET sub == Entities[k].Subheading
                att == AttachedTo(StartRow(k))
            IN  /\ StartRow(k) # 0
                /\ sub # Obj(NoData)
                /\ (sub = Num(0)) <=> (att = {})
                /\ att # {} =>
                      /\ sub.t = "obj"
                      /\ DOMAIN sub.v = att
                      /\ \A x \in att : sub.v[x] \in {[colour |-> c] : c \in Colours}

\* an output with an entity without subheadings and one with two
C5_Witness ==
    /\ InGridLoop /\ ppc = "done"
    /\ \E k1, k2 \in DOMAIN Entities :
          /\ Entities[k1].Subheading = Num(0)
          /\ Entities[k2].Subheading.t = "obj"
          /\ Cardinality(DOMAIN Entities[k2].Subheading.v) = 2

(* C6: in the row loop of the grid variant, a subheading-only row with a    *)
(* preceding name row adds its trimmed subheading, with the colour of its   *)
(* cell, to the entity of the nearest preceding name row and changes no     *)
(* other entity; a row with a name and a subheading starts the entity and   *)
(* attaches the subheading to that new entity; a row with neither changes   *)
(* nothing.                                                                 *)
C6_RowEffect ==
    (InGridLoop /\ ppc = "loop" /\ rowIdx <= LastRow /\ rowIdx' = rowIdx + 1) =>
        LET i == rowIdx
            o == OwnerRow(i)
            entry == (SubOf(i) :> [colour |-> SubColour(i)])
        IN  /\ (~HasName(i) /\ HasSub(i) /\ o # 0) =>
                  /\ currentServiceKey' = currentServiceKey
                  /\ currentServiceKey = Str(NameOf(o))
                  /\ DOMAIN data' = DOMAIN data
                  /\ \A k \in DOMAIN data \ {NameOf(o)} : data'[k] = data[k]
                  /\ data'[NameOf(o)] =
                        [data[NameOf(o)] EXCEPT
                            !.Subheading = Obj(entry @@ data[NameOf(o)].Subheading.v)]
            /\ (HasName(i) /\ HasSub(i)) =>
                  /\ currentServiceKey' = Str(NameOf(i))
                  /\ DOMAIN data' = DOMAIN data \cup {NameOf(i)}
                  /\ \A k \in DOMAIN data \ {NameOf(i)} : data'[k] = data[k]
                  /\ data'[NameOf(i)].Subheading = Obj(entry)
            /\ (~HasName(i) /\ ~HasSub(i)) =>
                  /\ currentServiceKey' = currentServiceKey
                  /\ data' = data

C6_AttachToNearestOwner == [][C6_RowEffect]_vars

\* two entities were started and the subheading-only row after them went to
\* the second one only
C6_Witness ==
    /\ InGridLoop /\ ppc = "loop" /\ rowIdx = 5
    /\ HasName(2) /\ HasName(3) /\ NameOf(2) # NameOf(3)
    /\ ~HasName(4) /\ HasSub(4)
    /\ SubOf(4) \in DOMAIN data[NameOf(3)].Subheading.v
    /\ DOMAIN data[NameOf(2)].Subheading.v = {}

(* C7 as stated: in both variants a data row whose name cell is absent,     *)
(* empty or whitespace-only adds no key to the output mapping and does not  *)
(* change the current owner.                                                *)
BlankName(i) ==
    IF variant = "grid" THEN ~HasName(i)
    ELSE At(theRows.v[i], 1).t = "undef" \/ Trim(At(theRows.v[i], 1).v) = <<>>

C7_BlankRowEffect ==
    (ppc = "loop" /\ rowIdx <= Len(theRows.v) /\ rowIdx' = rowIdx + 1 /\ BlankName(rowIdx)) =>
        /\ DOMAIN data' = DOMAIN data
        /\ currentServiceKey' = currentServiceKey

C7_BlankNameNeverStarts == [][C7_BlankRowEffect]_vars

(* C8: in the grid variant, subheading-only rows before the first name row  *)
(* are dropped: as long as no name row was met there is no entity and no    *)
(* owner, every key of the output is the trimmed name of a name row, and    *)
(* every subheading entry of the output comes from a row at or after the    *)
(* name row that started its entity.                                        *)
C8_OwnerlessDropped ==
    /\ (InGridLoop /\ ppc = "loop" /\ \A j \in 2..(rowIdx - 1) : ~HasName(j)) =>
          data = NoData /\ currentServiceKey = JsNull
    /\ (InGridLoop /\ ppc = "done") =>
          \A k \in DOMAIN Entities :
              /\ StartRow(k) # 0
              /\ Entities[k].Subheading.t = "obj" =>
                    \A x \in DOMAIN Entities[k].Subheading.v :
                        \E i \in 2..LastRow :
                            HasSub(i) /\ SubOf(i) = x /\ OwnerRow(i) = StartRow(k)

\* a subheading-only row came first, an entity was started after it, and the
\* subheading text is nowhere in the output
C8_Witness ==
    /\ InGridLoop /\ ppc = "done" /\ LastRow >= 3
    /\ ~HasName(2) /\ HasSub(2) /\ HasName(3)
    /\ DOMAIN Entities # {}
    /\ \A k \in DOMAIN Entities :
          Entities[k].Subheading.t = "obj" => SubOf(2) \notin DOMAIN Entities[k].Subheading.v

(* C9 as stated: in both variants the compliant field of the entity a name  *)
(* row creates is null when the compliant text is "-", "null", "", absent   *)
(* or any other non-numeric text.                                           *)
NonNumeric(x) == x.t = "undef" \/ Trim(x.v) = <<>> \/ ToNumber(x) = NaN

\* the compliant text of data row i, the key it starts, its compliant field
CompliantText(i) ==
    IF variant = "grid"
    THEN IF HCompliant \in DOMAIN theHeaders /\ Truthy(At(RowData(i), theHeaders[HCompliant]))
         THEN At(RowData(i), theHeaders[HCompliant]).v.formattedValue
         ELSE Undefined
    ELSE At(theRows.v[i], 2)

StartsEntity(i) == IF variant = "grid" THEN HasName(i) ELSE Truthy(At(theRows.v[i], 1))

KeyStarted(i) == IF variant = "grid" THEN NameOf(i) ELSE At(theRows.v[i], 1).v

CompliantField(e) == IF variant = "grid" THEN e.Compliant ELSE e[KeyOf(At(theHeaders, 2))]

C9_NonNumericIsNull ==
    (ppc = "loop" /\ theRows.t = "arr" /\ rowIdx > 2 /\ StartsEntity(rowIdx - 1)
       /\ NonNumeric(CompliantText(rowIdx - 1))) =>
        CompliantField(data[KeyStarted(rowIdx - 1)]) = JsNull

(* C10 as stated: parseSheetData does not throw on a response without sheet *)
(* list, without a sheet titled SHEET_NAME, without data section, with an   *)
(* empty data section, or with absent or empty row data: it returns exactly *)
(* { SHEET_NAME: {} }.                                                      *)
ListedShapes == IF variant = "grid" THEN {1, 2, 3, 5, 6, 7, 8} ELSE {1, 2}

C10_MalformedNeverThrows ==
    (inputId.bad \in ListedShapes) =>
        /\ ppc # "threw"
        /\ ppc = "done" => result = Wrap(NoData)

----------------------------------------------------------------------------
(* One call of rgbToColorName *)

\* the components are tenths 0..MaxTenth
MaxTenth == 10

\* the colour objects: any subset of the components may be absent
ColourObjects ==
    UNION {[S -> 0..MaxTenth] : S \in SUBSET {"red", "green", "blue"}}

ParserIdle ==
    /\ variant = "grid"
    /\ inputId = NoResponse
    /\ ppc = "start"
    /\ theRows = Undefined
    /\ theHeaders = Undefined
    /\ rowIdx = 0
    /\ data = NoData
    /\ currentServiceKey = JsNull
    /\ result = Undefined

InitColour ==
    /\ ParserIdle
    /\ ServerInit
    /\ theColor \in {Undefined} \cup {Obj(c) : c \in ColourObjects}
    /\ colorName = ""
    /\ LimiterInit
    /\ BootIdle

\* part_000 lines 40-51
ClassifyColour ==
    /\ colorName = ""
    /\ colorName' = rgbToColorName(theColor)
    /\ UNCHANGED <<theColor, variant, pvars, svars, lvars, bvars>>

NextColour == ClassifyColour

SpecColour == InitColour /\ [][NextColour]_vars

\* the components as the claim reads them: absent is 0
Red10(c) == IF "red" \in DOMAIN c.v THEN c.v.red ELSE 0
Green10(c) == IF "green" \in DOMAIN c.v THEN c.v.green ELSE 0
Blue10(c) == IF "blue" \in DOMAIN c.v THEN c.v.blue ELSE 0

IsRgb(c, r, g, b) == c.t = "obj" /\ Red10(c) = r /\ Green10(c) = g /\ Blue10(c) = b

(* C11: rgbToColorName returns Red iff red > 0.8, green < 0.2 and           *)
(* blue < 0.2; otherwise Green iff green > 0.5 and red < 0.5; otherwise     *)
(* Gray; Gray without a colour object; absent components count as 0.  In    *)
(* particular (1,0,0) and (0.9,0.1,0.1) are Red, (0,1,0) and (0.3,0.6,0.3)  *)
(* are Green, (0,0,0) and (1,1,1) are Gray.                                 *)
C11_ColourRule ==
    colorName # "" =>
        /\ colorName \in {"Red", "Green", "Gray"}
        /\ theColor.t = "undef" => colorName = "Gray"
        /\ theColor.t = "obj" =>
              LET isRed == Red10(theColor) > 8 /\ Green10(theColor) < 2 /\ Blue10(theColor) < 2
                  isGreen == Green10(theColor) > 5 /\ Red10(theColor) < 5
              IN  /\ (colorName = "Red") <=> isRed
                  /\ (colorName = "Green") <=> (~isRed /\ isGreen)
                  /\ (colorName = "Gray") <=> (~isRed /\ ~isGreen)
        /\ (IsRgb(theColor, 10, 0, 0) \/ IsRgb(theColor, 9, 1, 1)) => colorName = "Red"
        /\ (IsRgb(theColor, 0, 10, 0) \/ IsRgb(theColor, 3, 6, 3)) => colorName = "Green"
        /\ (IsRgb(theColor, 0, 0, 0) \/ IsRgb(theColor, 10, 10, 10)) => colorName = "Gray"

\* (0.9, 0.1, 0.1) with all components present was classified
C11_Witness ==
    /\ colorName = "Red"
    /\ theColor.t = "obj" /\ DOMAIN theColor.v = {"red", "green", "blue"}
    /\ IsRgb(theColor, 9, 1, 1)

----------------------------------------------------------------------------
(* The server when every upstream call comes to an end *)

\* axios.get of request r resolves or rejects, and the handler runs on
\* (lines 159-166, 176-181; index.js 62-67, 77-81)
Settle(r) == r \in 1..Len(req) /\ (UpstreamResolve(r) \/ UpstreamReject(r))

\* no upstream call stays pending for ever
SpecLive == Init /\ [][Next]_vars /\ \A r \in 1..MaxReq : WF_vars(Settle(r))

\* the answer of request r is a 200 with the JSON object or a 500 with
\* {error, details}
WellAnswered(r) ==
    \/ /\ req[r].status = 200
       /\ req[r].body.t = "obj"
       /\ "by" \in DOMAIN req[r].body
    \/ /\ req[r].status = 500
       /\ req[r].body.t = "obj"
       /\ DOMAIN req[r].body.v = {"error", "details"}
       /\ req[r].body.v.error = "Failed to fetch sheet data"

\* an answer that was sent is never followed by another
AnswerStays ==
    \A r \in Requests : req[r].pc = "done" => (r \in 1..Len(req') /\ req'[r] = req[r])

(* C12: every request to GET /api/sheet-data that reaches the handler gets  *)
(* exactly one answer, a 200 with the JSON object or a 500 with {error,     *)
(* details}: a rejection of the upstream call or an exception of the parse  *)
(* is caught, the request is answered and the server goes on serving,       *)
(* provided every upstream call eventually resolves or rejects.             *)
C12_AnsweredOnce ==
    /\ \A r \in 1..MaxReq :
          [](r \in Requests => <>(r \in Requests /\ req[r].pc = "done"))
    /\ [](\A r \in Requests : req[r].pc = "done" => WellAnswered(r))
    /\ [](\A r \in Requests : req[r].pc # "done" => (req[r].status = 0 /\ req[r].body = Undefined))
    /\ [][AnswerStays]_vars

\* one request was answered 500 after a rejection, a later one 500 after an
\* exception of the parse
C12_Witness ==
    \E i, j \in Requests :
        /\ i < j
        /\ Answered(i, 500) /\ req[i].body = ErrorBody("Network Error")
        /\ Answered(j, 500) /\ req[j].body = ErrorBody("TypeError")

----------------------------------------------------------------------------
(* The rate limiter in front of the routes *)

\* Line 23 (index.js 22): windowMs
WINDOW_MS == 60000

\* Line 24 (index.js 23): max
LIMIT_MAX == 100

\* the paths, as their segments
RootPath == <<>>
SheetDataPath == <<"api", "sheet-data">>

\* bug: app.use(limiter) puts the limiter in front of every route
IsLimitedEverywhere(path) == TRUE

\* Line 28 (index.js 25): app.use('/api/', limiter)
IsLimited(path) == Len(path) >= 1 /\ path[1] = "api"

\* how far the model follows a client past the limit, the requests of the
\* second client, and the steps of time
MaxOver == 1
MaxOther == 1
MaxLimTicks == 2

Quota(c) == IF c = "a" THEN LIMIT_MAX + MaxOver ELSE MaxOther

\* the window of client c is over (or was never started) at the clock
WindowOver(c) == resetTime[c] = 0 \/ clock >= resetTime[c]

\* the store counts one more request of client c
Counted(c) == IF WindowOver(c) THEN 1 ELSE hits[c] + 1

\* the middleware counts a request of client c to a limited path
Count(c) ==
    /\ hits' = [hits EXCEPT ![c] = Counted(c)]
    /\ resetTime' = [resetTime EXCEPT ![c] = IF WindowOver(c) THEN clock + WINDOW_MS ELSE @]
    /\ windowFrom' = [windowFrom EXCEPT ![c] = IF WindowOver(c) THEN clock ELSE @]

\* the middleware lets the counted request of client c through
Passes(c) ==
    /\ Counted(c) <= LIMIT_MAX
    /\ reached' = [reached EXCEPT ![c] = IF WindowOver(c) THEN 1 ELSE @ + 1]

\* the limiter is passed or not in the way
Through(c, path) ==
    /\ IsLimited(path) => (hits[c] < Quota(c) \/ WindowOver(c))
    /\ IF IsLimited(path)
       THEN Count(c) /\ Passes(c)
       ELSE UNCHANGED <<hits, resetTime, windowFrom, reached>>

LimInit ==
    /\ ParserIdle
    /\ ServerInit
    /\ ColourIdle
    /\ LimiterInit
    /\ BootIdle

LimTick ==
    /\ ticks < MaxLimTicks
    /\ \E d \in {1, WINDOW_MS - 1} : clock' = clock + d
    /\ ticks' = ticks + 1
    /\ UNCHANGED <<variant, pvars, cvars, bvars, lvars, cache, cacheTimestamp, req>>

\* the limiter answers 429 and the request goes no further
Limited(c, path) ==
    /\ IsLimited(path)
    /\ hits[c] < Quota(c) \/ WindowOver(c)
    /\ Count(c)
    /\ Counted(c) > LIMIT_MAX
    /\ last' = [path |-> path, status |-> 429, get |-> FALSE]
    /\ UNCHANGED <<variant, pvars, cvars, bvars, svars, reached>>

\* Lines 170-172 (index.js 71-73): GET /
GetRoot(c) ==
    /\ Through(c, RootPath)
    /\ last' = [path |-> RootPath, status |-> 200, get |-> FALSE]
    /\ UNCHANGED <<variant, pvars, cvars, bvars, svars>>

\* Lines 148-153, 176-177 (index.js 55-59, 77-78): the request reaches the
\* handler and is served from the cache
GetSheetDataHit(c) ==
    /\ Through(c, SheetDataPath)
    /\ IsFresh(cache, cacheTimestamp, clock)
    /\ last' = [path |-> SheetDataPath, status |-> 200, get |-> FALSE]
    /\ UNCHANGED <<variant, pvars, cvars, bvars, svars>>

\* Lines 148-166, 176-180 (index.js 55-67, 77-80): the request reaches the
\* handler, which makes the upstream call, here without another request in
\* between; the call succeeds or fails
GetSheetDataFetch(c) ==
    /\ Through(c, SheetDataPath)
    /\ ~IsFresh(cache, cacheTimestamp, clock)
    /\ \E id \in ResponseIds(variant) :
          /\ cache' = CacheAfter(Parsed[variant][id], cache, 0)
          /\ cacheTimestamp' = StampAfter(Parsed[variant][id], cacheTimestamp, clock, clock)
          /\ last' = [path |-> SheetDataPath,
                      status |-> IF Parsed[variant][id] = Thrown THEN 500 ELSE 200,
                      get |-> TRUE]
    /\ UNCHANGED <<variant, pvars, cvars, bvars, clock, ticks, req>>

NextLimiter ==
    \/ LimTick
    \/ \E c \in Clients : \E path \in {RootPath, SheetDataPath} : Limited(c, path)
    \/ \E c \in Clients : GetRoot(c)
    \/ \E c \in Clients : GetSheetDataHit(c)
    \/ \E c \in Clients : GetSheetDataFetch(c)

SpecLimiter == LimInit /\ [][NextLimiter]_vars

\* the window of client c that the claim speaks of is running at the clock
InWindow(c) == hits[c] > 0 /\ clock < windowFrom[c] + 60000

\* this step counts a request of client c
CountedStep(c) == hits'[c] # hits[c] \/ resetTime'[c] # resetTime[c]

\* a counted request of client c leaves the counters of the others alone
OthersUntouched(c) ==
    \A d \in Clients \ {c} :
        /\ hits'[d] = hits[d]
        /\ resetTime'[d] = resetTime[d]
        /\ windowFrom'[d] = windowFrom[d]
        /\ reached'[d] = reached[d]

\* a request beyond the hundredth of a running window is answered 429 and
\* touches neither the upstream nor the cache
FurtherRefused(c) ==
    (InWindow(c) /\ reached[c] >= 100) =>
        /\ last'.status = 429
        /\ ~last'.get
        /\ reached'[c] = reached[c]
        /\ UNCHANGED <<cache, cacheTimestamp, req>>

\* a window is counted on for less than 60 000 ms from its first request,
\* and a new one begins only after that
FixedWindow(c) ==
    IF windowFrom'[c] = windowFrom[c] /\ hits'[c] = hits[c] + 1
    THEN InWindow(c)
    ELSE ~InWindow(c) /\ windowFrom'[c] = clock /\ hits'[c] = 1

(* C13: per client address and per fixed window of 60 000 ms at most 100    *)
(* requests under /api/ reach the handler; every further one is answered    *)
(* 429, makes no upstream call and leaves cache and cacheTimestamp as they   *)
(* were; the counter of one address does not affect another; GET / is never *)
(* limited.                                                                  *)
C13_RateLimit ==
    /\ [](\A c \in Clients : reached[c] <= 100)
    /\ [][\A c \in Clients :
            CountedStep(c) => (OthersUntouched(c) /\ FurtherRefused(c) /\ FixedWindow(c))]_vars
    /\ [](last.status = 429 => IsLimited(last.path))
    /\ [](last.path = RootPath => last.status = 200)
    /\ [][last'.path = RootPath => UNCHANGED <<hits, resetTime, windowFrom, reached>>]_vars

\* client a is over the limit of its running window, its last request was
\* refused, and the request of client b that came last was served
C13_Witness ==
    /\ InWindow("a") /\ hits["a"] = 101 /\ reached["a"] = 100
    /\ hits["b"] >= 1 /\ reached["b"] = hits["b"]
    /\ last.path = SheetDataPath /\ last.status = 200

----------------------------------------------------------------------------
(* The start of the process *)

\* what dotenv leaves in a variable: unset, empty, or some text
EnvValues == {Undefined, Str(<<>>), Str(<<"k">>), Str(<<" ">>)}

\* bug: the start fails only when both values are missing
ConfigMissingBoth(id, key) == ~Truthy(id) /\ ~Truthy(key)

\* Line 15 (index.js 14): !SHEET_ID || !API_KEY
ConfigMissing(id, key) == ~Truthy(id) \/ ~Truthy(key)

BootInit ==
    /\ variant \in {"grid", "flat"}
    /\ inputId = NoResponse
    /\ ppc = "start"
    /\ theRows = Undefined
    /\ theHeaders = Undefined
    /\ rowIdx = 0
    /\ data = NoData
    /\ currentServiceKey = JsNull
    /\ result = Undefined
    /\ ServerInit
    /\ ColourIdle
    /\ LimiterInit
    /\ env \in [SHEET_ID : EnvValues, API_KEY : EnvValues,
                PORT : {Undefined, Str(<<"8", "0">>)}]
    /\ bpc = "start"
    /\ mounted = {}
    /\ listening = Undefined
    /\ served = FALSE

\* Lines 5-17 (index.js 5-16): the configuration is read and checked; the
\* throw at top level ends the process
LoadConfig ==
    /\ bpc = "start"
    /\ bpc' = IF ConfigMissing(env.SHEET_ID, env.API_KEY) THEN "crashed" ELSE "configured"
    /\ UNCHANGED <<variant, pvars, svars, cvars, lvars, env, mounted, listening, served>>

\* Lines 20-28 (index.js 18-25)
MountMiddleware ==
    /\ bpc = "configured"
    /\ mounted' = mounted \cup {"cors", "limiter"}
    /\ bpc' = "middleware"
    /\ UNCHANGED <<variant, pvars, svars, cvars, lvars, env, listening, served>>

\* Lines 170-182 (index.js 71-82)
RegisterRoutes ==
    /\ bpc = "middleware"
    /\ mounted' = mounted \cup {"GET /", "GET /api/sheet-data"}
    /\ bpc' = "routes"
    /\ UNCHANGED <<variant, pvars, svars, cvars, lvars, env, listening, served>>

\* Line 185 with line 8 (index.js 84, 8): app.listen(PORT)
Listen ==
    /\ bpc = "routes"
    /\ listening' = JsOr(env.PORT, Num(3000))
    /\ bpc' = "up"
    /\ UNCHANGED <<variant, pvars, svars, cvars, lvars, env, mounted, served>>

\* a request is served by a registered route of the listening server
ServeOne ==
    /\ bpc = "up"
    /\ listening # Undefined
    /\ \E route \in {"GET /", "GET /api/sheet-data"} : route \in mounted
    /\ served' = TRUE
    /\ UNCHANGED <<variant, pvars, svars, cvars, lvars, env, bpc, mounted, listening>>

NextBoot == LoadConfig \/ MountMiddleware \/ RegisterRoutes \/ Listen \/ ServeOne

SpecBoot == BootInit /\ [][NextBoot]_vars

\* the value is missing or empty, as the claim reads it
Missing(x) == x = Undefined \/ x = Str(<<>>)

(* C14: when SHEET_ID or API_KEY is missing or empty at the start, the      *)
(* process fails before any route is registered and before it listens: no   *)
(* state with a route, a listening server or a served request is reachable. *)
C14_FailsBeforeServing ==
    (Missing(env.SHEET_ID) \/ Missing(env.API_KEY)) =>
        /\ bpc \in {"start", "crashed"}
        /\ mounted = {}
        /\ listening = Undefined
        /\ ~served

\* the start failed with a SHEET_ID present and an empty API_KEY
C14_Witness ==
    /\ bpc = "crashed"
    /\ env.SHEET_ID = Str(<<"k">>)
    /\ env.API_KEY = Str(<<>>)

----------------------------------------------------------------------------
(* The status objects *)

\* the cell of data row i under header h, as the response has it
RawCell(i, h) ==
    IF h \in DOMAIN theHeaders THEN At(RowData(i), theHeaders[h]) ELSE Undefined

\* its text (undefined: none)
RawText(i, h) ==
    IF RawCell(i, h).t = "obj" THEN RawCell(i, h).v.formattedValue ELSE Undefined

HasText(i, h) == RawText(i, h).t = "str" /\ RawText(i, h).v # <<>>

\* the status fields of an entity
StatusPart(e) == [k \in DOMAIN e \cap {"status_C", "status_E"} |-> e[k]]

\* the entity that the name row i just made has the status object of column
\* h under key, or no such key
StatusAsCell(i, h, key) ==
    LET e == data[NameOf(i)] IN
    IF HasText(i, h)
    THEN /\ key \in DOMAIN e
         /\ e[key] = Obj([name |-> RawText(i, h),
                          colour |-> rgbToColorName(RawCell(i, h).v.backgroundColor)])
    ELSE key \notin DOMAIN e

\* the row at hand is a name row that was just read
NameRowRead == InGridLoop /\ ppc = "loop" /\ rowIdx > 2 /\ HasName(rowIdx - 1)

\* the row at hand is about to be read and has no name
BeforeUnnamedRow == InGridLoop /\ ppc = "loop" /\ rowIdx <= LastRow /\ ~HasName(rowIdx)

(* C15: for each of the columns Status C and Status E of a name row, a      *)
(* non-empty text gives status_C (status_E) = {name: the text, colour: the  *)
(* colour name of that same cell}, an empty or absent text gives no such    *)
(* key; a row without a name adds or changes no status object.              *)
C15_StatusObjects ==
    /\ [](NameRowRead =>
            /\ StatusAsCell(rowIdx - 1, HStatusC, "status_C")
            /\ StatusAsCell(rowIdx - 1, HStatusE, "status_E"))
    /\ [][BeforeUnnamedRow =>
            /\ DOMAIN data' = DOMAIN data
            /\ \A k \in DOMAIN data : StatusPart(data'[k]) = StatusPart(data[k])]_vars

\* a name row gave a green status_C and a red status_E, and the row after
\* it, which has no name but a Status E text, was read
C15_Witness ==
    /\ InGridLoop /\ ppc = "loop" /\ rowIdx > 3
    /\ HasName(rowIdx - 2) /\ ~HasName(rowIdx - 1) /\ HasText(rowIdx - 1, HStatusE)
    /\ LET e == data[NameOf(rowIdx - 2)] IN
          /\ "status_C" \in DOMAIN e /\ e["status_C"].v.colour = "Green"
          /\ "status_E" \in DOMAIN e /\ e["status_E"].v.colour = "Red"

----------------------------------------------------------------------------
(* The timestamp of the slot over time *)

\* request r completes in this step with a result of its own
Stores(r) == req[r].pc = "await" /\ req'[r].pc = "done" /\ req'[r].status = 200

(* C16 as stated: across any interleaving cacheTimestamp never decreases.   *)
C16_AsStated == [][cacheTimestamp' >= cacheTimestamp]_vars

(* C16 amended: cacheTimestamp changes only when a request that missed the  *)
(* cache completes with a result, and becomes that request's start time; it *)
(* does not decrease when no request that started later has stored before,  *)
(* and it decreases exactly when a request that started earlier stores      *)
(* after one that started later (the last writer wins).                     *)
C16_StampFollowsWriter ==
    [][\A r \in Requests :
          /\ cacheTimestamp' # cacheTimestamp => \E w \in Requests : Stores(w)
          /\ Stores(r) =>
                /\ cacheTimestamp' = req[r].now
                /\ (cacheTimestamp' < cacheTimestamp) <=>
                      \E w \in Requests :
                          /\ w > r /\ req[w].now > req[r].now
                          /\ Answered(w, 200) /\ req[w].gets = 1
                          /\ cacheTimestamp = req[w].now]_vars

\* the slot holds the result and the start time of the first request, which
\* stored after the second, whose start was later
C16_Witness ==
    /\ Len(req) = 2
    /\ req[1].gets = 1 /\ req[2].gets = 1
    /\ Answered(1, 200) /\ Answered(2, 200)
    /\ cache.by = 1
    /\ cacheTimestamp = req[1].now /\ cacheTimestamp < req[2].now

(* C17: a value returned from the cache by a call that starts at `now` was  *)
(* produced by a request whose upstream fetch started less than 30 000 ms   *)
(* before `now`; no call returns a value whose fetch started 30 000 ms or   *)
(* more before the call's start, whatever the interleaving and also after   *)
(* failed refreshes.                                                        *)
C17_ServedValueIsYoung ==
    \A r \in Requests :
        Answered(r, 200) =>
            /\ req[r].body.by \in Requests
            /\ req[req[r].body.by].gets = 1
            /\ req[r].now - req[req[r].body.by].now < 30000
            /\ req[r].now - req[req[r].body.by].now >= 0
            /\ req[r].gets = 0 => req[r].body.by # r

\* a call returned from the cache a value whose fetch started 29 999 ms
\* before it
C17_Witness ==
    \E r \in Requests :
        /\ Answered(r, 200) /\ req[r].gets = 0
        /\ req[r].now - req[req[r].body.by].now = 29999

----------------------------------------------------------------------------
(* The compliant number and the entities over the row pass *)

(* C18 as stated: a name row of the grid variant whose compliant text is a  *)
(* finite number, "0" included, gets Compliant equal to that number; the    *)
(* field is null only when the text is not a number.                        *)
C18_NumberIsKept ==
    (NameRowRead /\ ~NonNumeric(CompliantText(rowIdx - 1))) =>
        data[NameOf(rowIdx - 1)].Compliant = ToNumber(CompliantText(rowIdx - 1))

\* the subheading texts attached to the entity of key k so far (in the
\* output: the field Subheading, 0 when there is none)
Attached(d, k) == IF d[k].Subheading.t = "obj" THEN DOMAIN d[k].Subheading.v ELSE {}

(* C19 as stated: a subheading entry attached during the row pass is still  *)
(* in the final output: no later row, in particular none with the same      *)
(* trimmed name, removes or resets what was attached, and the number of     *)
(* entities equals the number of rows with a non-empty trimmed name.        *)
C19_AttachedStays ==
    /\ [](InGridLoop /\ ppc = "done" =>
            /\ Cardinality(DOMAIN Entities) = Cardinality({i \in 2..LastRow : HasName(i)})
            /\ \A i \in 2..LastRow :
                  (HasSub(i) /\ OwnerRow(i) # 0) =>
                      SubOf(i) \in Attached(Entities, NameOf(OwnerRow(i))))
    /\ [][InGridLoop /\ ppc = "loop" /\ ppc' = "loop" =>
            \A k \in DOMAIN data :
                k \in DOMAIN data' /\ Attached(data, k) \subseteq Attached(data', k)]_vars

====
